---- MODULE Spec2Model ----
(***************************************************************************)
(* A model of AirbnbAPI (src/AirbnbAPI.py): the record normalizer, the     *)
(* aggregator, the paginated fetch loop, the filter/sort pipeline of       *)
(* get_reservations_as_json and the calendar exporter.                     *)
(*                                                                         *)
(* Python values are tagged records, so that values of different Python    *)
(* types can live in one field:                                            *)
(*   None  [t |-> "none"]          int   [t |-> "int",   v |-> n]          *)
(*   str   [t |-> "str", v |-> <<chars>>]                                  *)
(*   float [t |-> "float", v |-> h]   h = the value in hundredths          *)
(*   dict  [t |-> "dict", v |-> function from key names to values]         *)
(* A str is the sequence of its characters: parsing, replacing and         *)
(* ordering work on the characters, as the code's library calls do.        *)
(* Lists of records are sequences.                                         *)
(***************************************************************************)
EXTENDS Integers, Sequences, FiniteSets, TLC

VARIABLES
    pc,                 \* position of the running call: "idle", "call", "fetch", "fetched", "return"
    call,               \* the running (or last) call: its name and arguments
    ret,                \* what the last call returned, or the exception it raised
    params,             \* self.params: _limit and _offset
    offset,             \* fetch_reservations: local offset
    all_reservations,   \* fetch_reservations: local all_reservations
    requests,           \* the _offset of every request sent so far, in order
    pages,              \* every response received so far, in order
    init_offset         \* the offset __init__ was called with

vars == <<pc, call, ret, params, offset, all_reservations, requests, pages, init_offset>>

(***************************************************************************)
(* Python values                                                           *)
(***************************************************************************)
PyNone == [t |-> "none"]
PyInt(n) == [t |-> "int", v |-> n]
PyFloat(h) == [t |-> "float", v |-> h]
PyStr(s) == [t |-> "str", v |-> s]
PyDict(f) == [t |-> "dict", v |-> f]
EmptyDict == PyDict(<<>>)
EmptyStr == PyStr(<<>>)

IsStr(x) == x.t = "str"
IsDict(x) == x.t = "dict"
IsNum(x) == x.t \in {"int", "float"}

\* bool(x): None, 0, 0.0, "" and {} are false
Truthy(x) ==
    CASE x.t = "none" -> FALSE
      [] x.t \in {"int", "float"} -> x.v # 0
      [] x.t = "str" -> Len(x.v) > 0
      [] x.t = "dict" -> DOMAIN x.v # {}

\* d.get(k, default) on a dict d
Get(d, k, default) == IF k \in DOMAIN d.v THEN d.v[k] ELSE default

\* a number in hundredths, whatever its Python type
Hundredths(x) == IF x.t = "int" THEN 100 * x.v ELSE x.v

\* a + b on Python numbers: int + int is an int, anything with a float is a float
PyAdd(a, b) ==
    IF a.t = "int" /\ b.t = "int" THEN PyInt(a.v + b.v)
    ELSE PyFloat(Hundredths(a) + Hundredths(b))

(***************************************************************************)
(* Characters                                                              *)
(***************************************************************************)
Digits == <<"0", "1", "2", "3", "4", "5", "6", "7", "8", "9">>
IsDigit(c) == \E i \in 1..10 : Digits[i] = c
DigitVal(c) == (CHOOSE i \in 1..10 : Digits[i] = c) - 1
AllDigits(s) == \A i \in 1..Len(s) : IsDigit(s[i])

RECURSIVE DigitsVal(_)
DigitsVal(s) == IF s = <<>> THEN 0 ELSE 10 * DigitsVal(SubSeq(s, 1, Len(s) - 1)) + DigitVal(s[Len(s)])

\* the characters the modelled strings are made of, in code point order
Alphabet == <<"$", ",", "-", ".", "0", "1", "2", "3", "4", "5", "6", "7", "8", "9", "R", "x">>
Ord(c) == CHOOSE i \in 1..Len(Alphabet) : Alphabet[i] = c

\* a < b on str: lexicographic by code point
RECURSIVE StrLess(_, _)
StrLess(a, b) ==
    IF b = <<>> THEN FALSE
    ELSE IF a = <<>> THEN TRUE
    ELSE IF Head(a) = Head(b) THEN StrLess(Tail(a), Tail(b))
    ELSE Ord(Head(a)) < Ord(Head(b))

\* s.replace(old, new): every non-overlapping occurrence, left to right
RECURSIVE Replace(_, _, _)
Replace(s, old, new) ==
    IF Len(s) < Len(old) THEN s
    ELSE IF SubSeq(s, 1, Len(old)) = old
         THEN new \o Replace(SubSeq(s, Len(old) + 1, Len(s)), old, new)
         ELSE <<Head(s)>> \o Replace(Tail(s), old, new)

\* index of the first c in s, 0 when there is none
IndexOf(s, c) ==
    IF \E i \in 1..Len(s) : s[i] = c
    THEN CHOOSE i \in 1..Len(s) : s[i] = c /\ \A j \in 1..(i - 1) : s[j] # c
    ELSE 0

(***************************************************************************)
(* float(s) for strings over Alphabet: [sign] digits [. [digits]] or       *)
(* [sign] . digits; anything else is a ValueError. The value is kept in    *)
(* hundredths, which is exact for the at most two decimals of the inputs.  *)
(***************************************************************************)
FloatBody(s) ==
    LET dot == IndexOf(s, ".")
        ip == IF dot = 0 THEN s ELSE SubSeq(s, 1, dot - 1)
        fp == IF dot = 0 THEN <<>> ELSE SubSeq(s, dot + 1, Len(s))
        ok == /\ AllDigits(ip) /\ AllDigits(fp)
              /\ Len(ip) + Len(fp) > 0
        f2 == SubSeq(fp \o <<"0", "0">>, 1, 2)
    IN  IF ok THEN [ok |-> TRUE, v |-> 100 * DigitsVal(ip) + DigitsVal(f2)]
        ELSE [ok |-> FALSE, v |-> 0]

ParseFloat(s) ==
    IF s # <<>> /\ Head(s) = "-"
    THEN LET b == FloatBody(Tail(s)) IN [ok |-> b.ok, v |-> 0 - b.v]
    ELSE FloatBody(s)

(***************************************************************************)
(* format_earnings                                                         *)
(***************************************************************************)
format_earnings(earnings_str) ==
    IF ~IsStr(earnings_str) THEN PyFloat(0)             \* AttributeError: no .replace
    ELSE LET s1 == Replace(earnings_str.v, <<"R", "$">>, <<>>)
             s2 == Replace(s1, <<".">>, <<>>)
             s3 == Replace(s2, <<",">>, <<".">>)
             f == ParseFloat(s3)
         IN  IF f.ok THEN PyFloat(f.v) ELSE PyFloat(0)  \* ValueError

(***************************************************************************)
(* process_reservation                                                     *)
(***************************************************************************)
\* reservation.get(outer, {}).get(inner, default): AttributeError unless the
\* outer value is a dict
NestedGet(reservation, outer, inner, default) ==
    LET o == Get(reservation, outer, EmptyDict)
    IN  IF IsDict(o) THEN [ok |-> TRUE, v |-> Get(o, inner, default)]
        ELSE [ok |-> FALSE, v |-> PyNone]

process_reservation(reservation) ==
    IF ~IsDict(reservation) THEN EmptyDict
    ELSE IF ~IsDict(Get(reservation, "guest_user", EmptyDict)) THEN EmptyDict
    ELSE IF ~IsDict(Get(reservation, "guest_details", EmptyDict)) THEN EmptyDict
    ELSE PyDict([
        status |-> Get(reservation, "user_facing_status_localized", EmptyStr),
        confirmation_code |-> Get(reservation, "confirmation_code", EmptyStr),
        property_name |-> Get(reservation, "listing_name", EmptyStr),
        booking_date |-> Get(reservation, "booked_date", EmptyStr),
        check_in |-> Get(reservation, "start_date", EmptyStr),
        check_out |-> Get(reservation, "end_date", EmptyStr),
        nights |-> Get(reservation, "nights", EmptyStr),
        earnings |-> format_earnings(Get(reservation, "earnings", PyStr(<<"0", ".", "0">>))),
        guest |-> PyDict([
            name |-> NestedGet(reservation, "guest_user", "full_name", EmptyStr).v,
            phone |-> NestedGet(reservation, "guest_user", "phone", EmptyStr).v,
            location |-> NestedGet(reservation, "guest_user", "location", EmptyStr).v,
            details |-> PyDict([
                adults |-> NestedGet(reservation, "guest_details", "number_of_adults", PyInt(0)).v,
                children |-> NestedGet(reservation, "guest_details", "number_of_children", PyInt(0)).v,
                infants |-> NestedGet(reservation, "guest_details", "number_of_infants", PyInt(0)).v,
                pets |-> NestedGet(reservation, "guest_details", "number_of_pets", PyInt(0)).v])])])

(***************************************************************************)
(* __init__ and the common part of every initial state                     *)
(***************************************************************************)
DefaultLimit == 40

\* self.params after __init__(api_key, cookie, limit=limit, offset=offset_arg)
init_params(limit, offset_arg) == [_limit |-> limit, _offset |-> offset_arg]

NoRet == [kind |-> "none"]
Returned(v) == [kind |-> "value", v |-> v]
Raised(exc) == [kind |-> "raise", exc |-> exc]

\* no fetch has run: the locals of fetch_reservations do not exist yet
NoFetchYet ==
    /\ offset = 0
    /\ all_reservations = <<>>
    /\ requests = <<>>
    /\ pages = <<>>

(***************************************************************************)
(* Strings used by the inputs                                              *)
(***************************************************************************)
Confirmada == PyStr(<<"C", "o", "n", "f", "i", "r", "m", "a", "d", "a">>)
HospedeAnterior == PyStr(<<"H", "ó", "s", "p", "e", "d", "e", " ", "a", "n", "t", "e", "r", "i", "o", "r">>)
CanceladoPeloHospede ==
    PyStr(<<"C", "a", "n", "c", "e", "l", "a", "d", "o", " ", "p", "e", "l", "o", " ",
            "h", "ó", "s", "p", "e", "d", "e">>)
CanceladaPeloAirbnb ==
    PyStr(<<"C", "a", "n", "c", "e", "l", "a", "d", "a", " ", "p", "e", "l", "o", " ",
            "A", "i", "r", "b", "n", "b">>)
PropA == PyStr(<<"A">>)
PropB == PyStr(<<"B">>)
Junk == PyStr(<<"x">>)

\* a key a raw record does not have
Absent == [t |-> "absent"]

\* the dict that has exactly the keys of f that are not Absent
DictOf(f) == PyDict([k \in {k \in DOMAIN f : f[k] # Absent} |-> f[k]])

(***************************************************************************)
(* SpecNormalize: process_reservation on partial and malformed raw records *)
(***************************************************************************)
RawInputs ==
    { DictOf(f) : f \in [
        user_facing_status_localized : {Absent, Confirmada},
        start_date : {Absent, PyStr(<<"2", "0", "2", "4", "-", "0", "1", "-", "0", "1">>)},
        nights : {Absent, PyInt(2), Junk},
        earnings : {Absent, PyNone, Junk,
                    PyStr(<<"R", "$", "1", ".", "2", "3", "4", ",", "5", "6">>),
                    PyStr(<<"R", "$", "0", ",", "0", "0">>),
                    PyStr(<<"R", "$", "-", "1", "5", ",", "5">>),
                    PyStr(<<"1", ",", "2", ",", "3">>)},
        guest_user : {Absent, PyNone, PyDict([full_name |-> Junk])},
        guest_details : {Absent, PyNone, EmptyDict,
                         PyDict([number_of_adults |-> PyInt(2), number_of_pets |-> Junk])} ] }

InitNormalize ==
    /\ pc = "call"
    /\ call \in {[op |-> "process_reservation", reservation |-> r] : r \in RawInputs}
    /\ ret = NoRet
    /\ params = init_params(DefaultLimit, PyNone)
    /\ init_offset = PyNone
    /\ NoFetchYet

ProcessReservation ==
    /\ pc = "call"
    /\ call.op = "process_reservation"
    /\ ret' = Returned(process_reservation(call.reservation))
    /\ pc' = "return"
    /\ UNCHANGED <<call, params, offset, all_reservations, requests, pages, init_offset>>

NextNormalize == ProcessReservation

SpecNormalize == InitNormalize /\ [][NextNormalize]_vars

NormalizeDone == pc = "return" /\ call.op = "process_reservation"

IsZero(x) == IsNum(x) /\ x.v = 0

\* the source value of a raw field is absent, or is not a number
NoNumber(d, k) == ~IsDict(d) \/ k \notin DOMAIN d.v \/ ~IsNum(d.v[k])
NoGuestNumber(d, k) ==
    \/ ~IsDict(d)
    \/ "guest_details" \notin DOMAIN d.v
    \/ NoNumber(d.v["guest_details"], k)

\* the earnings of a raw record are absent, or are no string float() accepts
NoEarnings(d) ==
    \/ ~IsDict(d)
    \/ "earnings" \notin DOMAIN d.v
    \/ ~IsStr(d.v["earnings"])
    \/ ~ParseFloat(Replace(Replace(Replace(d.v["earnings"].v, <<"R", "$">>, <<>>),
                                   <<".">>, <<>>), <<",">>, <<".">>)).ok

NormalizedKeys ==
    {"status", "confirmation_code", "property_name", "booking_date", "check_in",
     "check_out", "nights", "earnings", "guest"}

\* C3: process_reservation returns a record with every field, in which a numeric
\* field is zero and a string field is the empty string whenever its source value
\* is absent or unparseable
C3_DefaultedFields ==
    NormalizeDone =>
        LET r == call.reservation
            p == ret.v
        IN  /\ ret.kind = "value"
            /\ DOMAIN p.v = NormalizedKeys
            /\ NoNumber(r, "nights") => IsZero(p.v.nights)
            /\ NoEarnings(r) => IsZero(p.v.earnings)
            /\ NoGuestNumber(r, "number_of_adults") => IsZero(p.v.guest.v.details.v.adults)
            /\ NoGuestNumber(r, "number_of_children") => IsZero(p.v.guest.v.details.v.children)
            /\ NoGuestNumber(r, "number_of_infants") => IsZero(p.v.guest.v.details.v.infants)
            /\ NoGuestNumber(r, "number_of_pets") => IsZero(p.v.guest.v.details.v.pets)
            /\ "user_facing_status_localized" \notin DOMAIN r.v => p.v.status = EmptyStr
            /\ "start_date" \notin DOMAIN r.v => p.v.check_in = EmptyStr
            /\ "end_date" \notin DOMAIN r.v => p.v.check_out = EmptyStr

(***************************************************************************)
(* Number formatting: f"{x:,.2f}" and f"{x:.2f}" on a value in hundredths. *)
(* A quotient is rounded to the nearest hundredth, ties to even, from its  *)
(* exact value.                                                            *)
(***************************************************************************)
Abs(n) == IF n < 0 THEN 0 - n ELSE n

RECURSIVE IntChars(_)
IntChars(n) == IF n < 10 THEN <<Digits[n + 1]>> ELSE IntChars(n \div 10) \o <<Digits[(n % 10) + 1]>>

\* the digits of n with a comma before every group of three
RECURSIVE Grouped(_)
Grouped(n) ==
    IF n < 1000 THEN IntChars(n)
    ELSE LET low == n % 1000
         IN  Grouped(n \div 1000) \o <<",">> \o
             <<Digits[(low \div 100) + 1], Digits[((low \div 10) % 10) + 1], Digits[(low % 10) + 1]>>

TwoDecimals(h) == <<".", Digits[((Abs(h) % 100) \div 10) + 1], Digits[(Abs(h) % 10) + 1]>>
Sign(h) == IF h < 0 THEN <<"-">> ELSE <<>>

\* f"{x:,.2f}"
FormatGrouped(h) == Sign(h) \o Grouped(Abs(h) \div 100) \o TwoDecimals(h)
\* f"{x:.2f}"
FormatFixed(h) == Sign(h) \o IntChars(Abs(h) \div 100) \o TwoDecimals(h)
\* f"R${x:,.2f}"
MoneyStr(h) == PyStr(<<"R", "$">> \o FormatGrouped(h))

\* num / den rounded to the nearest integer, ties to even; den # 0
RoundDiv(num, den) ==
    LET n == IF den < 0 THEN 0 - num ELSE num
        d == Abs(den)
        fl == n \div d
        rem == n - fl * d
    IN  IF 2 * rem > d THEN fl + 1
        ELSE IF 2 * rem < d THEN fl
        ELSE IF fl % 2 = 0 THEN fl ELSE fl + 1

\* (v / total) * 100 in hundredths, rounded to the nearest, ties to even: a long
\* division, one decimal digit at a time; total # 0
RECURSIVE LongDiv(_, _, _, _)
LongDiv(q, r, d, digits) ==
    IF digits = 0
    THEN IF 2 * r > d THEN q + 1
         ELSE IF 2 * r < d THEN q
         ELSE IF q % 2 = 0 THEN q ELSE q + 1
    ELSE LongDiv(10 * q + (10 * r) \div d, (10 * r) % d, d, digits - 1)

PercentHundredths(v, total) ==
    LET m == LongDiv(Abs(v) \div Abs(total), Abs(v) % Abs(total), Abs(total), 4)
    IN  IF (v < 0) # (total < 0) THEN 0 - m ELSE m

\* f"{(v / total) * 100:.2f}%", v and total in the same unit
PercentStr(v, total) == PyStr(FormatFixed(PercentHundredths(v, total)) \o <<"%">>)

(***************************************************************************)
(* Dicts that keep insertion order (a dict built in a loop and then        *)
(* iterated or sorted): a sequence of [k |-> key, v |-> value]             *)
(***************************************************************************)
Front(s) == SubSeq(s, 1, Len(s) - 1)
Last(s) == s[Len(s)]

KeyIndex(d, k) ==
    IF \E i \in 1..Len(d) : d[i].k = k THEN CHOOSE i \in 1..Len(d) : d[i].k = k ELSE 0

\* d[k] = d.get(k, 0) + amount
DictAdd(d, k, amount) ==
    LET i == KeyIndex(d, k)
    IN  IF i = 0 THEN Append(d, [k |-> k, v |-> PyAdd(PyInt(0), amount)])
        ELSE [d EXCEPT ![i].v = PyAdd(@, amount)]

(***************************************************************************)
(* list.sort / sorted: a stable sort on (key, item) pairs. With            *)
(* reverse=True the list is reversed, sorted ascending and reversed again, *)
(* which keeps equal keys in their input order.                            *)
(***************************************************************************)
\* a < b, for keys that can be ordered
PyLess(a, b) ==
    IF IsNum(a) THEN Hundredths(a) < Hundredths(b) ELSE StrLess(a.v, b.v)

\* comparing raises TypeError unless both are numbers or both are str
Orderable(a, b) == (IsNum(a) /\ IsNum(b)) \/ (IsStr(a) /\ IsStr(b))

\* a sort of fewer than two items compares nothing
SortRaises(pairs) ==
    /\ Len(pairs) >= 2
    /\ \E i, j \in 1..Len(pairs) : ~Orderable(pairs[i].key, pairs[j].key)

Reverse(s) == [i \in 1..Len(s) |-> s[Len(s) + 1 - i]]

RECURSIVE Insert(_, _)
Insert(sorted, x) ==
    IF sorted = <<>> THEN <<x>>
    ELSE IF PyLess(x.key, Head(sorted).key) THEN <<x>> \o sorted
    ELSE <<Head(sorted)>> \o Insert(Tail(sorted), x)

RECURSIVE StableSort(_)
StableSort(pairs) ==
    IF pairs = <<>> THEN <<>> ELSE Insert(StableSort(Front(pairs)), Last(pairs))

PySorted(pairs, reverse) ==
    IF reverse THEN Reverse(StableSort(Reverse(pairs))) ELSE StableSort(pairs)

\* a descending sort that puts equal values in the reverse of their order in d
SortedByValueDescTiesReversed(d) ==
    LET pairs == [i \in 1..Len(d) |-> [key |-> d[i].v, item |-> d[i]]]
        out == Reverse(StableSort(pairs))
    IN  [i \in 1..Len(out) |-> out[i].item]

\* sorted(d.items(), key=lambda item: item[1], reverse=True)
SortedByValueDesc(d) ==
    LET pairs == [i \in 1..Len(d) |-> [key |-> d[i].v, item |-> d[i]]]
        out == PySorted(pairs, TRUE)
    IN  [i \in 1..Len(out) |-> out[i].item]

(***************************************************************************)
(* calculate_summary. The report leaves out generated_at (the wall clock). *)
(***************************************************************************)
Unknown == PyStr(<<"u", "n", "k", "n", "o", "w", "n">>)
UnknownProperty == PyStr(<<"U", "n", "k", "n", "o", "w", "n">>)
ZeroEarnings == PyStr(<<"R", "$", "0", ",", "0", "0">>)
CancelLabels == {CanceladoPeloHospede, CanceladaPeloAirbnb}

\* the cancellation filter left out
valid_reservations_keep_all(reservations, include_canceled) == reservations

\* lines 111-117

valid_reservations(reservations, include_canceled) ==
    IF ~include_canceled
    THEN SelectSeq(reservations, LAMBDA res : Get(res, "status", PyNone) \notin CancelLabels)
    ELSE reservations

RECURSIVE status_count_of(_)
status_count_of(reservations) ==
    IF reservations = <<>> THEN <<>>
    ELSE DictAdd(status_count_of(Front(reservations)),
                 Get(Last(reservations), "status", Unknown), PyInt(1))

\* sum(...) of a sequence of values: TypeError unless all are numbers
RECURSIVE PySum(_)
PySum(vals) == IF vals = <<>> THEN PyInt(0) ELSE PyAdd(PySum(Front(vals)), Last(vals))
AllNum(vals) == \A i \in 1..Len(vals) : IsNum(vals[i])

\* [res.get(field, 0) for res in rs]
Column(rs, field) == [i \in 1..Len(rs) |-> Get(rs[i], field, PyInt(0))]

\* res["guest"]["details"] can be read
HasDetails(res) ==
    /\ "guest" \in DOMAIN res.v
    /\ IsDict(res.v["guest"])
    /\ "details" \in DOMAIN res.v["guest"].v
    /\ IsDict(res.v["guest"].v["details"])

\* [res["guest"]["details"].get(field, 0) for res in rs], when HasDetails holds of all
GuestColumn(rs, field) ==
    [i \in 1..Len(rs) |-> Get(rs[i].v["guest"].v["details"], field, PyInt(0))]

\* the exception of the four guest sums, "" when there is none: the adults pass
\* meets a record without guest details (KeyError) or a value that is no number
\* (TypeError), whichever record comes first
guest_details_error(rs) ==
    LET bad(i) == ~HasDetails(rs[i])
                  \/ ~IsNum(Get(rs[i].v["guest"].v["details"], "adults", PyInt(0)))
    IN  IF \E i \in 1..Len(rs) : bad(i)
        THEN LET i == CHOOSE i \in 1..Len(rs) : bad(i) /\ \A j \in 1..(i - 1) : ~bad(j)
             IN  IF HasDetails(rs[i]) THEN "TypeError" ELSE "KeyError"
        ELSE IF \E f \in {"children", "infants", "pets"} : ~AllNum(GuestColumn(rs, f))
        THEN "TypeError"
        ELSE ""

guest_details_of(rs) ==
    [adults_sum |-> PySum(GuestColumn(rs, "adults")),
     children_sum |-> PySum(GuestColumn(rs, "children")),
     infants_sum |-> PySum(GuestColumn(rs, "infants")),
     pets_sum |-> PySum(GuestColumn(rs, "pets"))]

RECURSIVE property_count_of(_)
property_count_of(rs) ==
    IF rs = <<>> THEN <<>>
    ELSE DictAdd(property_count_of(Front(rs)),
                 Get(Last(rs), "property_name", UnknownProperty), PyInt(1))

RECURSIVE property_earnings_of(_)
property_earnings_of(rs) ==
    IF rs = <<>> THEN <<>>
    ELSE DictAdd(property_earnings_of(Front(rs)),
                 Get(Last(rs), "property_name", UnknownProperty),
                 Get(Last(rs), "earnings", PyInt(0)))

sorted_property_count(property_count, reservations_sum) ==
    LET items == SortedByValueDesc(property_count)
    IN  [i \in 1..Len(items) |->
            [k |-> items[i].k,
             count |-> items[i].v,
             percentage |-> PercentStr(items[i].v.v, reservations_sum)]]

\* earnings_sum is not zero
sorted_property_earnings(property_earnings, property_count, earnings_sum) ==
    LET items == SortedByValueDesc(property_earnings)
        count(k) == property_count[KeyIndex(property_count, k)].v.v
    IN  [i \in 1..Len(items) |->
            [k |-> items[i].k,
             earnings |-> MoneyStr(Hundredths(items[i].v)),
             percentage |-> PercentStr(Hundredths(items[i].v), Hundredths(earnings_sum)),
             average_per_reservation |->
                IF count(items[i].k) > 0
                THEN MoneyStr(RoundDiv(Hundredths(items[i].v), count(items[i].k)))
                ELSE ZeroEarnings]]

calculate_summary(reservations, include_canceled) ==
    LET valid == valid_reservations(reservations, include_canceled)
        status_count == status_count_of(reservations)
        earnings_sum == PySum(Column(valid, "earnings"))
        nights_sum == PySum(Column(valid, "nights"))
        property_count == property_count_of(valid)
        property_earnings == property_earnings_of(valid)
        reservations_sum == Len(valid)
    IN  IF valid = <<>>
        THEN Returned([reservations_sum |-> 0,
                       earnings_sum |-> ZeroEarnings,
                       nights_sum |-> PyInt(0),
                       status_count |-> status_count,
                       guest_details |-> <<>>,
                       reservations_per_property |-> <<>>,
                       earnings_per_property |-> <<>>])
        ELSE IF ~AllNum(Column(valid, "earnings")) THEN Raised("TypeError")
        ELSE IF ~AllNum(Column(valid, "nights")) THEN Raised("TypeError")
        ELSE IF guest_details_error(valid) # "" THEN Raised(guest_details_error(valid))
        ELSE IF Hundredths(earnings_sum) = 0 THEN Raised("ZeroDivisionError")
        ELSE Returned([reservations_sum |-> reservations_sum,
                       earnings_sum |-> MoneyStr(Hundredths(earnings_sum)),
                       nights_sum |-> nights_sum,
                       status_count |-> SortedByValueDesc(status_count),
                       guest_details |-> guest_details_of(valid),
                       reservations_per_property |->
                           sorted_property_count(property_count, reservations_sum),
                       earnings_per_property |->
                           sorted_property_earnings(property_earnings, property_count,
                                                    earnings_sum)])

(***************************************************************************)
(* Raw records, as the platform sends them                                 *)
(***************************************************************************)
D20231230 == PyStr(<<"2", "0", "2", "3", "-", "1", "2", "-", "3", "0">>)
D20240101 == PyStr(<<"2", "0", "2", "4", "-", "0", "1", "-", "0", "1">>)
D20240615 == PyStr(<<"2", "0", "2", "4", "-", "0", "6", "-", "1", "5">>)
D20241231 == PyStr(<<"2", "0", "2", "4", "-", "1", "2", "-", "3", "1">>)
D20250101 == PyStr(<<"2", "0", "2", "5", "-", "0", "1", "-", "0", "1">>)
D20240230 == PyStr(<<"2", "0", "2", "4", "-", "0", "2", "-", "3", "0">>)

RawGuest == PyDict([full_name |-> Junk, phone |-> Junk, location |-> Junk])
Details(adults, children) ==
    PyDict([number_of_adults |-> PyInt(adults), number_of_children |-> PyInt(children),
            number_of_infants |-> PyInt(0), number_of_pets |-> PyInt(0)])

Raw(status, listing, start, end, nights, earnings, adults, children) ==
    PyDict([user_facing_status_localized |-> status,
            confirmation_code |-> Junk,
            listing_name |-> listing,
            booked_date |-> D20231230,
            start_date |-> start,
            end_date |-> end,
            nights |-> PyInt(nights),
            earnings |-> PyStr(earnings),
            guest_user |-> RawGuest,
            guest_details |-> Details(adults, children)])

E1234_56 == <<"R", "$", "1", ".", "2", "3", "4", ",", "5", "6">>
E100_00 == <<"R", "$", "1", "0", "0", ",", "0", "0">>
E0_00 == <<"R", "$", "0", ",", "0", "0">>

RawConfirmedA == Raw(Confirmada, PropA, D20231230, D20240101, 2, E1234_56, 2, 0)
RawCanceledB == Raw(CanceladoPeloHospede, PropB, D20240615, D20241231, 1, E100_00, 1, 0)
RawFreeB == Raw(Confirmada, PropB, D20240101, D20240615, 3, E0_00, 1, 1)
RawCanceledFreeA == Raw(CanceladaPeloAirbnb, PropA, D20241231, D20250101, 1, E0_00, 2, 2)
\* a record whose guest_user is null: process_reservation gives {}
RawMalformed == PyDict([user_facing_status_localized |-> Confirmada, guest_user |-> PyNone])
\* a record with no nights, no earnings, no dates
RawPartial == PyDict([user_facing_status_localized |-> Confirmada, listing_name |-> PropA])

\* all sequences over S of length lo..hi
SeqsUpTo(S, lo, hi) == UNION {[1..n -> S] : n \in lo..hi}

(***************************************************************************)
(* SpecSummary: calculate_summary on batches of normalized records         *)
(***************************************************************************)
MaxBatch == 3

SummaryPool ==
    {process_reservation(r) :
        r \in {RawConfirmedA, RawCanceledB, RawFreeB, RawCanceledFreeA, RawMalformed, RawPartial}}

InitSummary ==
    /\ pc = "call"
    /\ call \in {[op |-> "calculate_summary", reservations |-> rs, include_canceled |-> ic] :
                    rs \in SeqsUpTo(SummaryPool, 0, MaxBatch), ic \in BOOLEAN}
    /\ ret = NoRet
    /\ params = init_params(DefaultLimit, PyNone)
    /\ init_offset = PyNone
    /\ NoFetchYet

CalculateSummary ==
    /\ pc = "call"
    /\ call.op = "calculate_summary"
    /\ ret' = calculate_summary(call.reservations, call.include_canceled)
    /\ pc' = "return"
    /\ UNCHANGED <<call, params, offset, all_reservations, requests, pages, init_offset>>

NextSummary == CalculateSummary

SpecSummary == InitSummary /\ [][NextSummary]_vars

SummaryDone == pc = "return" /\ call.op = "calculate_summary"

\* the records of a batch that do not carry a cancellation label, by position
ValidIdx(rs) == {i \in 1..Len(rs) : Get(rs[i], "status", PyNone) \notin CancelLabels}

\* the sum over a set of positions of a number per position
RECURSIVE SumOver(_, _)
SumOver(I, f) ==
    IF I = {} THEN 0 ELSE LET i == CHOOSE i \in I : TRUE IN f[i] + SumOver(I \ {i}, f)

\* the value a key has in an insertion-ordered dict, as a number; 0 when absent
ValueAt(d, k) == IF KeyIndex(d, k) = 0 THEN 0 ELSE d[KeyIndex(d, k)].v.v
Keys(d) == {d[i].k : i \in 1..Len(d)}

\* C1: calculate_summary never fails with a division by zero, whatever the batch
\* and the flag
C1_NoDivisionByZero ==
    SummaryDone => ~(ret.kind = "raise" /\ ret.exc = "ZeroDivisionError")

\* C1, the empty valid subset: a report of zero sums and empty per-property maps
C1_EmptyValidZeroReport ==
    (SummaryDone /\ valid_reservations(call.reservations, call.include_canceled) = <<>>) =>
        /\ ret.kind = "value"
        /\ ret.v.reservations_sum = 0
        /\ ret.v.earnings_sum = ZeroEarnings
        /\ ret.v.nights_sum = PyInt(0)
        /\ ret.v.reservations_per_property = <<>>
        /\ ret.v.earnings_per_property = <<>>

\* C2: with include_canceled false, a report counts every record of the batch in
\* status_count, cancelled ones included, and computes reservations_sum,
\* earnings_sum, nights_sum, the guest totals and both per-property maps over the
\* records without a cancellation label only
C2_HistogramOverAllRestOverValid ==
    (SummaryDone /\ ~call.include_canceled /\ ret.kind = "value") =>
        LET rs == call.reservations
            V == ValidIdx(rs)
            rep == ret.v
            status(i) == Get(rs[i], "status", Unknown)
            prop(i) == Get(rs[i], "property_name", UnknownProperty)
            earn == [i \in 1..Len(rs) |-> Hundredths(Get(rs[i], "earnings", PyInt(0)))]
            night == [i \in 1..Len(rs) |-> Get(rs[i], "nights", PyInt(0)).v]
            guest(f) == [i \in 1..Len(rs) |-> rs[i].v["guest"].v["details"].v[f].v]
            one == [i \in 1..Len(rs) |-> 1]
        IN  /\ Keys(rep.status_count) = {status(i) : i \in 1..Len(rs)}
            /\ \A i \in 1..Len(rs) :
                 ValueAt(rep.status_count, status(i)) =
                    Cardinality({j \in 1..Len(rs) : status(j) = status(i)})
            /\ rep.reservations_sum = Cardinality(V)
            /\ V = {} =>
                 /\ rep.earnings_sum = ZeroEarnings
                 /\ rep.nights_sum = PyInt(0)
                 /\ rep.guest_details = <<>>
                 /\ rep.reservations_per_property = <<>>
                 /\ rep.earnings_per_property = <<>>
            /\ V # {} =>
                 /\ rep.earnings_sum = MoneyStr(SumOver(V, earn))
                 /\ rep.nights_sum.v = SumOver(V, night)
                 /\ rep.guest_details.adults_sum.v = SumOver(V, guest("adults"))
                 /\ rep.guest_details.children_sum.v = SumOver(V, guest("children"))
                 /\ rep.guest_details.infants_sum.v = SumOver(V, guest("infants"))
                 /\ rep.guest_details.pets_sum.v = SumOver(V, guest("pets"))
                 /\ {rep.reservations_per_property[i].k :
                        i \in 1..Len(rep.reservations_per_property)} = {prop(i) : i \in V}
                 /\ {rep.earnings_per_property[i].k :
                        i \in 1..Len(rep.earnings_per_property)} = {prop(i) : i \in V}
                 /\ \A n \in 1..Len(rep.reservations_per_property) :
                      LET e == rep.reservations_per_property[n]
                      IN  e.count.v = Cardinality({i \in V : prop(i) = e.k})
                 /\ \A n \in 1..Len(rep.earnings_per_property) :
                      LET e == rep.earnings_per_property[n]
                      IN  e.earnings = MoneyStr(SumOver({i \in V : prop(i) = e.k}, earn))

\* a report for a batch that holds a cancelled record and a record that is not
C2_Witness ==
    /\ SummaryDone /\ ~call.include_canceled /\ ret.kind = "value"
    /\ ValidIdx(call.reservations) # {}
    /\ ValidIdx(call.reservations) # 1..Len(call.reservations)

\* C4, on calculate_summary: a batch with an empty placeholder record still gets
\* a report
C4_SummaryToleratesPlaceholder ==
    (SummaryDone /\ \E i \in 1..Len(call.reservations) : call.reservations[i] = EmptyDict) =>
        ret.kind = "value"

(***************************************************************************)
(* SpecProperty: calculate_summary on batches that spread over three       *)
(* properties, with equal counts and equal earnings among them             *)
(***************************************************************************)
PropC == PyStr(<<"L", "o", "f", "t", " ", "C">>)

RawPaidA == Raw(Confirmada, PropA, D20240101, D20240615, 1, E100_00, 1, 0)
RawPaidC == Raw(Confirmada, PropC, D20240101, D20240615, 2, E100_00, 2, 0)

PropertyPool ==
    {process_reservation(r) : r \in {RawConfirmedA, RawPaidA, RawCanceledB, RawFreeB, RawPaidC}}

InitProperty ==
    /\ pc = "call"
    /\ call \in {[op |-> "calculate_summary", reservations |-> rs, include_canceled |-> ic] :
                    rs \in SeqsUpTo(PropertyPool, 0, MaxBatch), ic \in BOOLEAN}
    /\ ret = NoRet
    /\ params = init_params(DefaultLimit, PyNone)
    /\ init_offset = PyNone
    /\ NoFetchYet

SpecProperty == InitProperty /\ [][NextSummary]_vars

\* the positions of the batch that the call sums over
SummedIdx == IF call.include_canceled THEN 1..Len(call.reservations) ELSE ValidIdx(call.reservations)

PropertyAt(i) == Get(call.reservations[i], "property_name", UnknownProperty)

\* the first position, among those summed over, of a record of property k
Discovery(k) ==
    CHOOSE i \in SummedIdx :
        PropertyAt(i) = k /\ \A j \in SummedIdx : PropertyAt(j) = k => i <= j

CountOf(k) == Cardinality({i \in SummedIdx : PropertyAt(i) = k})

EarningsOf(k) ==
    SumOver({i \in SummedIdx : PropertyAt(i) = k},
            [i \in 1..Len(call.reservations) |->
                Hundredths(Get(call.reservations[i], "earnings", PyInt(0)))])

\* a per-property map lists its keys by metric, greatest first, and keys of equal
\* metric by discovery
DescendingByDiscovery(m, metric(_)) ==
    \A a, b \in 1..Len(m) :
        a < b =>
            \/ metric(m[a].k) > metric(m[b].k)
            \/ metric(m[a].k) = metric(m[b].k) /\ Discovery(m[a].k) < Discovery(m[b].k)

\* C12: in a report, reservations_per_property is in descending order of count and
\* earnings_per_property in descending order of earnings, and in each map the
\* properties of equal metric are in the order in which the valid subset first
\* shows them
C12_PerPropertyDescendingTiesByDiscovery ==
    (SummaryDone /\ ret.kind = "value") =>
        /\ DescendingByDiscovery(ret.v.reservations_per_property, CountOf)
        /\ DescendingByDiscovery(ret.v.earnings_per_property, EarningsOf)

\* a report over three properties of one record each: the counts are all equal,
\* two earnings are equal, and the greatest earnings belong to the property found
\* last
C12_Witness ==
    /\ SummaryDone /\ ret.kind = "value"
    /\ Len(call.reservations) = 3
    /\ Len(ret.v.reservations_per_property) = 3
    /\ ret.v.earnings_per_property[1].k = PropertyAt(3)
    /\ EarningsOf(PropertyAt(1)) = EarningsOf(PropertyAt(2))
    /\ EarningsOf(PropertyAt(3)) > EarningsOf(PropertyAt(1))

(***************************************************************************)
(* datetime.datetime.strptime(x, "%Y-%m-%d"): four digits, one or two for  *)
(* the month, one or two for the day, a real date of the years 1..9999.    *)
(* The value is an ordinal that orders dates chronologically.              *)
(***************************************************************************)
IsLeap(y) == (y % 4 = 0 /\ y % 100 # 0) \/ y % 400 = 0

DaysInMonth(y, m) ==
    IF m = 2 THEN (IF IsLeap(y) THEN 29 ELSE 28)
    ELSE IF m \in {4, 6, 9, 11} THEN 30 ELSE 31

Strptime(x) ==
    IF ~IsStr(x) THEN [ok |-> FALSE, exc |-> "TypeError", v |-> 0]
    ELSE
    LET s == x.v
        bad == [ok |-> FALSE, exc |-> "ValueError", v |-> 0]
    IN  IF Len(s) < 8 \/ IndexOf(s, "-") # 5 THEN bad
        ELSE
        LET year == SubSeq(s, 1, 4)
            rest == SubSeq(s, 6, Len(s))
            dash == IndexOf(rest, "-")
        IN  IF dash \notin {2, 3} THEN bad
            ELSE
            LET month == SubSeq(rest, 1, dash - 1)
                day == SubSeq(rest, dash + 1, Len(rest))
            IN  IF ~(AllDigits(year) /\ AllDigits(month) /\ AllDigits(day)) THEN bad
                ELSE IF Len(day) \notin {1, 2} THEN bad
                ELSE
                LET y == DigitsVal(year)
                    m == DigitsVal(month)
                    d == DigitsVal(day)
                IN  IF y < 1 \/ m \notin 1..12 \/ d < 1 THEN bad
                    ELSE IF d > DaysInMonth(y, m) THEN bad
                    ELSE [ok |-> TRUE, exc |-> "", v |-> y * 10000 + m * 100 + d]

(***************************************************************************)
(* get_reservations_as_json, after the fetch. The JSON text it returns is  *)
(* represented by the document the text encodes.                           *)
(* sort_by and date_filter_field are key names, "" for a sort_by of None;  *)
(* status_filter is the set of the list's members, {} for None.            *)
(***************************************************************************)
Message(text) == [message |-> text]
NoSortBy == ""
valid_date_fields == {"check_in", "check_out", "booking_date"}

\* str.lower() on the letters sort_order is written with
LowerChar(c) ==
    CASE c = "A" -> "a" [] c = "S" -> "s" [] c = "C" -> "c"
      [] c = "D" -> "d" [] c = "E" -> "e" [] OTHER -> c
Lower(s) == [i \in 1..Len(s) |-> LowerChar(s[i])]
Desc == <<"d", "e", "s", "c">>

\* the range without its two ends
is_within_date_range_exclusive(reservation, date_filter_field, start, end) ==
    LET date_field_value == Get(reservation, date_filter_field, EmptyStr)
    IN  IF ~Truthy(date_field_value) THEN FALSE
        ELSE LET reservation_date == Strptime(date_field_value).v
             IN  /\ (start = PyNone \/ reservation_date > start.v)
                 /\ (end = PyNone \/ reservation_date < end.v)

\* is_within_date_range, for a record whose date parses or is empty; start and
\* end are ordinals, or None
is_within_date_range(reservation, date_filter_field, start, end) ==
    LET date_field_value == Get(reservation, date_filter_field, EmptyStr)
    IN  IF ~Truthy(date_field_value) THEN FALSE
        ELSE LET reservation_date == Strptime(date_field_value).v
             IN  /\ (start = PyNone \/ reservation_date >= start.v)
                 /\ (end = PyNone \/ reservation_date <= end.v)

\* a date that does not parse is passed over
date_filter_never_raises(reservations, date_filter_field) == FALSE

\* the comprehension raises at a record whose date is not empty and does not parse
date_filter_raises(reservations, date_filter_field) ==
    \E i \in 1..Len(reservations) :
        LET v == Get(reservations[i], date_filter_field, EmptyStr)
        IN  Truthy(v) /\ ~Strptime(v).ok

\* lines 257-273: the filtered list, or the failure of the try block
date_filter(reservations, a) ==
    IF ~(Truthy(a.start_date) \/ Truthy(a.end_date)) THEN [ok |-> TRUE, v |-> reservations]
    ELSE IF Truthy(a.start_date) /\ ~Strptime(a.start_date).ok THEN [ok |-> FALSE, v |-> <<>>]
    ELSE IF Truthy(a.end_date) /\ ~Strptime(a.end_date).ok THEN [ok |-> FALSE, v |-> <<>>]
    ELSE IF date_filter_raises(reservations, a.date_filter_field) THEN [ok |-> FALSE, v |-> <<>>]
    ELSE LET start == IF Truthy(a.start_date) THEN PyInt(Strptime(a.start_date).v) ELSE PyNone
             end == IF Truthy(a.end_date) THEN PyInt(Strptime(a.end_date).v) ELSE PyNone
         IN  [ok |-> TRUE,
              v |-> SelectSeq(reservations,
                        LAMBDA res : is_within_date_range(res, a.date_filter_field, start, end))]

\* lines 275-276
status_filtered(reservations, status_filter) ==
    IF status_filter # {}
    THEN SelectSeq(reservations, LAMBDA res : Get(res, "status", PyNone) \in status_filter)
    ELSE reservations

\* a descending sort as the reverse of the ascending one
sort_reservations_unstable(reservations, sort_by, sort_order) ==
    LET pairs == [i \in 1..Len(reservations) |->
                    [key |-> Get(reservations[i], sort_by, EmptyStr), item |-> reservations[i]]]
        out == IF Lower(sort_order.v) = Desc THEN Reverse(StableSort(pairs)) ELSE StableSort(pairs)
    IN  IF ~IsStr(sort_order) \/ SortRaises(pairs) THEN [ok |-> FALSE, v |-> <<>>]
        ELSE [ok |-> TRUE, v |-> [i \in 1..Len(out) |-> out[i].item]]

\* res[sort_by] in place of res.get(sort_by, ""): KeyError at a record without the field
sort_reservations_strict(reservations, sort_by, sort_order) ==
    LET pairs == [i \in 1..Len(reservations) |->
                    [key |-> Get(reservations[i], sort_by, EmptyStr), item |-> reservations[i]]]
        out == PySorted(pairs, Lower(sort_order.v) = Desc)
    IN  IF \E i \in 1..Len(reservations) : sort_by \notin DOMAIN reservations[i].v
        THEN [ok |-> FALSE, v |-> <<>>]
        ELSE IF ~IsStr(sort_order) \/ SortRaises(pairs) THEN [ok |-> FALSE, v |-> <<>>]
        ELSE [ok |-> TRUE, v |-> [i \in 1..Len(out) |-> out[i].item]]

\* lines 278-286: the sorted list, or the failure of the try block
sort_reservations(reservations, sort_by, sort_order) ==
    LET pairs == [i \in 1..Len(reservations) |->
                    [key |-> Get(reservations[i], sort_by, EmptyStr), item |-> reservations[i]]]
        out == PySorted(pairs, Lower(sort_order.v) = Desc)
    IN  IF ~IsStr(sort_order) \/ SortRaises(pairs) THEN [ok |-> FALSE, v |-> <<>>]
        ELSE [ok |-> TRUE, v |-> [i \in 1..Len(out) |-> out[i].item]]

\* lines 248-294, on the list fetch_reservations returned
get_reservations_as_json(reservations, a) ==
    IF reservations = <<>> THEN Returned(Message("Nenhuma reserva encontrada."))
    ELSE IF a.date_filter_field \notin valid_date_fields
    THEN Returned(Message("Campo de filtro de data inválido"))
    ELSE LET dated == date_filter(reservations, a)
         IN  IF ~dated.ok THEN Returned(Message("Erro ao filtrar por período de datas."))
             ELSE LET kept == status_filtered(dated.v, a.status_filter)
                      ordered == IF a.sort_by # NoSortBy
                                 THEN sort_reservations(kept, a.sort_by, a.sort_order)
                                 ELSE [ok |-> TRUE, v |-> kept]
                  IN  IF ~ordered.ok THEN Returned(Message("Erro ao ordenar pelo campo"))
                      ELSE LET summary == calculate_summary(ordered.v, FALSE)
                           IN  IF summary.kind = "raise" THEN summary
                               ELSE Returned([summary |-> summary.v,
                                              reservations |-> ordered.v])

(***************************************************************************)
(* The calls of one AirbnbAPI object and the fetch loop                    *)
(***************************************************************************)
MaxRecords == 3

\* __init__(api_key, cookie, limit=limit, offset=offset_arg) has run
Constructed(limit, offset_arg) ==
    /\ pc = "idle"
    /\ call = [op |-> "none"]
    /\ ret = NoRet
    /\ params = init_params(limit, offset_arg)
    /\ init_offset = offset_arg
    /\ NoFetchYet

\* lines 191-193: the locals of a fetch that starts
StartFetch ==
    /\ offset' = 0
    /\ all_reservations' = <<>>
    /\ requests' = <<>>
    /\ pages' = <<>>
    /\ ret' = NoRet
    /\ pc' = "fetch"

FetchReservationsCall ==
    /\ pc = "idle"
    /\ call' = [op |-> "fetch_reservations"]
    /\ StartFetch
    /\ UNCHANGED <<params, init_offset>>

GetReservationsAsJsonCall(a) ==
    /\ pc = "idle"
    /\ call' = [op |-> "get_reservations_as_json", args |-> a]
    /\ StartFetch
    /\ UNCHANGED <<params, init_offset>>

\* the offset grown by one
next_offset_by_one(off, limit) == off + 1

\* line 212: the offset of the next request, after a page that was not empty
next_offset(off, limit) == off + limit

\* lines 196-212: a request answered by a page that is not empty
ReceivePage(page) ==
    /\ pc = "fetch"
    /\ page # <<>>
    /\ Len(all_reservations) + Len(page) <= MaxRecords
    /\ params' = [params EXCEPT !._offset = PyInt(offset)]
    /\ requests' = Append(requests, offset)
    /\ pages' = Append(pages, [kind |-> "page", reservations |-> page])
    /\ all_reservations' =
          all_reservations \o [i \in 1..Len(page) |-> process_reservation(page[i])]
    /\ offset' = next_offset(offset, params._limit)
    /\ UNCHANGED <<pc, call, ret, init_offset>>

\* lines 196-209: a request answered by an empty page
ReceiveEmptyPage ==
    /\ pc = "fetch"
    /\ params' = [params EXCEPT !._offset = PyInt(offset)]
    /\ requests' = Append(requests, offset)
    /\ pages' = Append(pages, [kind |-> "page", reservations |-> <<>>])
    /\ pc' = "fetched"
    /\ UNCHANGED <<call, ret, offset, all_reservations, init_offset>>

\* lines 196-204, 214-216: a request that ends in a requests.RequestException
TransportFailure ==
    /\ pc = "fetch"
    /\ params' = [params EXCEPT !._offset = PyInt(offset)]
    /\ requests' = Append(requests, offset)
    /\ pages' = Append(pages, [kind |-> "failure", reservations |-> <<>>])
    /\ pc' = "fetched"
    /\ UNCHANGED <<call, ret, offset, all_reservations, init_offset>>

\* lines 218-219
FetchReservationsReturn ==
    /\ pc = "fetched"
    /\ call.op = "fetch_reservations"
    /\ ret' = Returned(all_reservations)
    /\ pc' = "return"
    /\ UNCHANGED <<call, params, offset, all_reservations, requests, pages, init_offset>>

\* lines 246-294, once fetch_reservations has returned
GetReservationsAsJsonReturn ==
    /\ pc = "fetched"
    /\ call.op = "get_reservations_as_json"
    /\ ret' = get_reservations_as_json(all_reservations, call.args)
    /\ pc' = "return"
    /\ UNCHANGED <<call, params, offset, all_reservations, requests, pages, init_offset>>

\* the caller has the result: the call's locals are gone, the object stays as the
\* call left it
ResultTaken ==
    /\ pc = "return"
    /\ pc' = "idle"
    /\ call' = [op |-> "none"]
    /\ ret' = NoRet
    /\ offset' = 0
    /\ all_reservations' = <<>>
    /\ requests' = <<>>
    /\ pages' = <<>>
    /\ UNCHANGED <<params, init_offset>>

\* the records of the pages received so far, normalized, in page order
RECURSIVE NormalizedPages(_)
NormalizedPages(ps) ==
    IF ps = <<>> THEN <<>>
    ELSE NormalizedPages(Front(ps)) \o
         [i \in 1..Len(Last(ps).reservations) |-> process_reservation(Last(ps).reservations[i])]

(***************************************************************************)
(* Spec: fetch_reservations against a server that answers each        *)
(* request with any page of at most _limit records, an empty page or a     *)
(* transport failure                                                       *)
(***************************************************************************)
FetchPool == {RawConfirmedA, RawMalformed, RawPartial}

Init ==
    \E limit \in {1, 2}, offset_arg \in {PyNone, PyInt(0), PyInt(5)} :
        Constructed(limit, offset_arg)

Next ==
    \/ FetchReservationsCall
    \/ \E page \in SeqsUpTo(FetchPool, 1, params._limit) : ReceivePage(page)
    \/ ReceiveEmptyPage
    \/ TransportFailure
    \/ FetchReservationsReturn
    \/ ResultTaken

Spec == Init /\ [][Next]_vars

\* C10: the i-th request carries the offset (i - 1) * _limit; every response but
\* the last is a page that is not empty, so nothing is requested after an empty
\* page or a transport failure; and the records accumulated, and returned, are the
\* normalized records of the pages received, in page order, each once
C10_Pagination ==
    /\ Len(requests) = Len(pages)
    /\ \A i \in 1..Len(requests) : requests[i] = (i - 1) * params._limit
    /\ \A i \in 1..(Len(pages) - 1) :
          pages[i].kind = "page" /\ pages[i].reservations # <<>>
    /\ pc = "fetch" =>
          \A i \in 1..Len(pages) : pages[i].kind = "page" /\ pages[i].reservations # <<>>
    /\ pc = "fetched" =>
          pages # <<>> /\ (Last(pages).kind = "failure" \/ Last(pages).reservations = <<>>)
    /\ pc \in {"fetch", "fetched"} => all_reservations = NormalizedPages(pages)
    /\ (pc = "return" /\ call.op = "fetch_reservations") =>
          ret = Returned(NormalizedPages(pages))

\* a fetch of two pages with a _limit of 2 that a transport failure ended
C10_Witness ==
    /\ pc = "return" /\ call.op = "fetch_reservations"
    /\ params._limit = 2
    /\ Len(pages) = 3 /\ pages[3].kind = "failure"
    /\ Len(ret.v) = 3

\* C11: when __init__ was given an integer offset, the first request of every
\* fetch_reservations call of the instance carries that offset
C11_FirstPageAtConstructorOffset ==
    (init_offset.t = "int" /\ requests # <<>>) => requests[1] = init_offset.v

\* the first request always carries the offset 0 (line 191), whatever __init__
\* was given, and overwrites the _offset that __init__ stored
C11_FirstPageAtZero ==
    requests # <<>> => requests[1] = 0 /\ params._offset = PyInt(Last(requests))

(***************************************************************************)
(* SpecFilter: get_reservations_as_json with date and status filters       *)
(***************************************************************************)
RawEndBoundary == Raw(HospedeAnterior, PropB, D20240615, D20241231, 1, E100_00, 1, 0)
RawAfterEnd == Raw(Confirmada, PropA, D20241231, D20250101, 1, E100_00, 2, 2)
RawBeforeStart == Raw(Confirmada, PropB, D20231230, D20231230, 1, E100_00, 1, 0)
RawBadDate == Raw(Confirmada, PropA, D20240230, D20240230, 1, E100_00, 1, 0)

FilterPool ==
    {RawConfirmedA, RawEndBoundary, RawAfterEnd, RawBeforeStart, RawBadDate, RawMalformed}

Args(sort_by, sort_order, start_date, end_date, date_filter_field, status_filter) ==
    [sort_by |-> sort_by, sort_order |-> sort_order, start_date |-> start_date,
     end_date |-> end_date, date_filter_field |-> date_filter_field,
     status_filter |-> status_filter]

Asc == PyStr(<<"a", "s", "c">>)

DateBounds ==
    {<<PyNone, PyNone>>, <<D20240101, PyNone>>, <<PyNone, D20241231>>,
     <<D20240101, D20241231>>, <<Junk, D20241231>>, <<D20240101, D20240230>>}

FilterArgs ==
    { Args(NoSortBy, Asc, d[1], d[2], "check_out", st) :
        d \in DateBounds, st \in {{}, {Confirmada, HospedeAnterior}} }
    \cup
    { Args(NoSortBy, Asc, d[1], d[2], "created_at", {}) :
        d \in {<<PyNone, PyNone>>, <<D20240101, D20241231>>} }

InitFilter == Constructed(1, PyNone)

NextFilter ==
    \/ \E a \in FilterArgs : GetReservationsAsJsonCall(a)
    \/ \E page \in SeqsUpTo(FilterPool, 1, params._limit) : ReceivePage(page)
    \/ ReceiveEmptyPage
    \/ TransportFailure
    \/ GetReservationsAsJsonReturn
    \/ ResultTaken

SpecFilter == InitFilter /\ [][NextFilter]_vars

JsonDone == pc = "return" /\ call.op = "get_reservations_as_json"
IsMessage(r) == r.kind = "value" /\ DOMAIN r.v = {"message"}
IsDocument(r) == r.kind = "value" /\ DOMAIN r.v = {"summary", "reservations"}

\* the date a record carries in a field: its ordinal, 0 for an empty date
DateOf(res, field) ==
    LET v == Get(res, field, EmptyStr) IN IF Truthy(v) THEN Strptime(v).v ELSE 0

\* C4: a batch with an empty placeholder record is tolerated: the call returns a
\* result, with or without filters
C4_PlaceholderTolerated ==
    (JsonDone /\ \E i \in 1..Len(all_reservations) : all_reservations[i] = EmptyDict) =>
        ret.kind = "value"

\* C5: with a start and/or end date and a valid date field, the reservations
\* returned are exactly the fetched records whose date in that field is not empty
\* and lies in [start, end], both ends included and a missing end open, and whose
\* status is in the status set when one is given
C5_ExactDateRange ==
    (/\ JsonDone
     /\ IsDocument(ret)
     /\ Truthy(call.args.start_date) \/ Truthy(call.args.end_date)) =>
        LET a == call.args
            inRange(res) ==
                /\ Truthy(Get(res, a.date_filter_field, EmptyStr))
                /\ Truthy(a.start_date) =>
                      DateOf(res, a.date_filter_field) >= Strptime(a.start_date).v
                /\ Truthy(a.end_date) =>
                      DateOf(res, a.date_filter_field) <= Strptime(a.end_date).v
            allowed(res) == a.status_filter = {} \/ Get(res, "status", PyNone) \in a.status_filter
        IN  /\ a.date_filter_field \in valid_date_fields
            /\ ret.v.reservations =
                  SelectSeq(all_reservations, LAMBDA res : inRange(res) /\ allowed(res))

\* both ends given: a record on each end is kept, one before the start, one after
\* the end and one without a date are dropped
C5_Witness ==
    /\ JsonDone /\ IsDocument(ret)
    /\ call.args.start_date = D20240101 /\ call.args.end_date = D20241231
    /\ call.args.status_filter = {}
    /\ \E i \in 1..Len(all_reservations) : all_reservations[i].v # <<>> /\ all_reservations[i].v.check_out = D20250101
    /\ \E i \in 1..Len(ret.v.reservations) : ret.v.reservations[i].v.check_out = D20240101
    /\ \E i \in 1..Len(ret.v.reservations) : ret.v.reservations[i].v.check_out = D20241231

\* C6: an invalid date field, or a start date, end date or record date that does
\* not parse while the date filter runs, makes the whole result a message
C6_DateErrorIsMessage ==
    JsonDone =>
        LET a == call.args
            filtering == Truthy(a.start_date) \/ Truthy(a.end_date)
            badBound == \/ Truthy(a.start_date) /\ ~Strptime(a.start_date).ok
                        \/ Truthy(a.end_date) /\ ~Strptime(a.end_date).ok
            badRecord == \E i \in 1..Len(all_reservations) :
                            LET v == Get(all_reservations[i], a.date_filter_field, EmptyStr)
                            IN  Truthy(v) /\ ~Strptime(v).ok
        IN  (\/ a.date_filter_field \notin valid_date_fields
             \/ filtering /\ (badBound \/ badRecord)) => IsMessage(ret)

\* valid bounds and a valid field, and a fetched record whose date does not parse
C6_Witness ==
    /\ JsonDone /\ IsMessage(ret)
    /\ call.args.start_date = D20240101 /\ call.args.end_date = D20241231
    /\ call.args.date_filter_field = "check_out"
    /\ Len(all_reservations) = 2
    /\ all_reservations[1].v # <<>> /\ all_reservations[1].v.check_out = D20240101
    /\ all_reservations[2].v # <<>> /\ all_reservations[2].v.check_out = D20240230

(***************************************************************************)
(* SpecSort: get_reservations_as_json with a sort_by and no filter         *)
(***************************************************************************)
RawSameDayB == Raw(Confirmada, PropB, D20240101, D20240101, 2, E100_00, 1, 0)
\* a record without dates
RawNoDates ==
    PyDict([user_facing_status_localized |-> Confirmada, listing_name |-> PropA,
            nights |-> PyInt(1), earnings |-> PyStr(E100_00)])

SortPool == {RawConfirmedA, RawSameDayB, RawCanceledB, RawNoDates, RawPartial}

DescStr == PyStr(Desc)
DescUpper == PyStr(<<"D", "E", "S", "C">>)

SortArgs ==
    { Args(f, o, PyNone, PyNone, "check_in", {}) :
        f \in {"check_out", "earnings", "nights", "guest", "listing_name"},
        o \in {Asc, DescStr} }
    \cup {Args("check_out", DescUpper, PyNone, PyNone, "check_in", {})}

InitSort == Constructed(1, PyNone)

NextSort ==
    \/ \E a \in SortArgs : GetReservationsAsJsonCall(a)
    \/ \E page \in SeqsUpTo(SortPool, 1, params._limit) : ReceivePage(page)
    \/ ReceiveEmptyPage
    \/ TransportFailure
    \/ GetReservationsAsJsonReturn
    \/ ResultTaken

SpecSort == InitSort /\ [][NextSort]_vars

\* a call that gets to the sort: records were fetched, a sort_by is given, the
\* date field is valid and no date or status filter is given, so that the list
\* sorted is the list fetched
SortDone ==
    /\ JsonDone
    /\ all_reservations # <<>>
    /\ call.args.sort_by # NoSortBy
    /\ call.args.date_filter_field \in valid_date_fields
    /\ ~Truthy(call.args.start_date) /\ ~Truthy(call.args.end_date)
    /\ call.args.status_filter = {}

SortKey(res) == Get(res, call.args.sort_by, EmptyStr)
SortError == Returned(Message("Erro ao ordenar pelo campo"))

\* two of the records sorted have keys that cannot be compared
UnorderableKeys ==
    \E i, j \in 1..Len(all_reservations) :
        i # j /\ ~Orderable(SortKey(all_reservations[i]), SortKey(all_reservations[j]))

\* no record sorted has the sort_by field
NoRecordHasField ==
    \A i \in 1..Len(all_reservations) : call.args.sort_by \notin DOMAIN all_reservations[i].v

\* C7, as stated: with a sort_by that no record has, or whose values cannot be
\* ordered, what the call returns is a message
C7_InvalidSortFieldIsError ==
    (SortDone /\ ret.kind = "value" /\ (NoRecordHasField \/ UnorderableKeys)) => IsMessage(ret)

\* C7, amended: keys that cannot be ordered among two or more records yield the
\* sort error message; a sort_by that no record has is no error, every key is the
\* default "" and a document returned has the records in their order before the sort
C7_UnorderableKeysAreError ==
    SortDone =>
        /\ UnorderableKeys => ret = SortError
        /\ NoRecordHasField =>
              /\ ret # SortError
              /\ IsDocument(ret) => ret.v.reservations = all_reservations

\* a sort by nights of a record with nights and a record without
C7_Witness ==
    /\ SortDone /\ ret = SortError
    /\ call.args.sort_by = "nights"
    /\ Len(all_reservations) = 2
    /\ all_reservations[1].v.nights = PyInt(2)
    /\ all_reservations[2].v.nights = EmptyStr

\* C8: a sorted result is a permutation of the records before the sort, its keys
\* never decrease for asc and never increase for desc, and in both directions
\* records with equal keys keep their order
C8_SortedStablePermutation ==
    (SortDone /\ IsDocument(ret)) =>
        LET out == ret.v.reservations
            desc == Lower(call.args.sort_order.v) = Desc
        IN  /\ Len(out) = Len(all_reservations)
            /\ \A i \in 1..(Len(out) - 1) :
                  IF desc THEN ~PyLess(SortKey(out[i]), SortKey(out[i + 1]))
                  ELSE ~PyLess(SortKey(out[i + 1]), SortKey(out[i]))
            /\ \A n \in 1..Len(all_reservations) :
                  LET k == SortKey(all_reservations[n])
                  IN  SelectSeq(out, LAMBDA res : SortKey(res) = k) =
                      SelectSeq(all_reservations, LAMBDA res : SortKey(res) = k)

\* a descending sort by check_out of two different records of one day and a later one
C8_Witness ==
    /\ SortDone /\ IsDocument(ret)
    /\ call.args.sort_by = "check_out" /\ call.args.sort_order = DescStr
    /\ Len(all_reservations) = 3
    /\ all_reservations[1].v.check_out = all_reservations[2].v.check_out
    /\ all_reservations[1] # all_reservations[2]
    /\ PyLess(all_reservations[2].v.check_out, all_reservations[3].v.check_out)

(***************************************************************************)
(* generate_ics. The JSON text it is given is represented by the document  *)
(* the text decodes to, or by Undecodable for a text json.loads rejects.   *)
(* The calendar is the sequence of its lines.                              *)
(***************************************************************************)
Undecodable == [undecodable |-> TRUE]

Line(name, value) == [name |-> name, value |-> value]

\* the digits of n, zero-padded to a width
RECURSIVE Padded(_, _)
Padded(n, width) ==
    IF width = 0 THEN <<>> ELSE Padded(n \div 10, width - 1) \o <<Digits[(n % 10) + 1]>>

\* dt.replace(hour=h, minute=0, second=0).strftime('%Y%m%dT%H%M%SZ'), dt an ordinal
Stamp(ordinal, hour) ==
    Padded(ordinal \div 10000, 4) \o Padded((ordinal \div 100) % 100, 2) \o
    Padded(ordinal % 100, 2) \o <<"T">> \o Padded(hour, 2) \o <<"0", "0", "0", "0", "Z">>

CheckInHour == 14
CheckOutHour == 11

\* lines 323-373, one record: the lines of its VEVENT, none when the record is
\* skipped for a missing date or for an exception
ics_event(res) ==
    LET guest == Get(res, "guest", EmptyDict)
        details == Get(guest, "details", EmptyDict)
        check_in == Get(res, "check_in", EmptyStr)
        check_out == Get(res, "check_out", EmptyStr)
        property_name == Get(res, "property_name", PyStr(<<"P">>))
    IN  IF ~IsDict(guest) THEN <<>>
        ELSE IF ~IsDict(details) THEN <<>>
        ELSE IF ~Truthy(check_in) \/ ~Truthy(check_out) THEN <<>>
        ELSE IF ~Strptime(check_in).ok \/ ~Strptime(check_out).ok THEN <<>>
        ELSE << Line("BEGIN", "VEVENT"),
                Line("SUMMARY", property_name),
                Line("DTSTART", Stamp(Strptime(check_in).v, CheckInHour)),
                Line("DTEND", Stamp(Strptime(check_out).v, CheckOutHour)),
                Line("DESCRIPTION", property_name),
                Line("Check-in", <<check_in, check_out>>),
                Line("Status", Get(res, "status", PyStr(<<"S">>))),
                Line("Adultos", Get(details, "adults", PyInt(0))),
                Line("Crianças", Get(details, "children", PyInt(0))),
                Line("Bebês", Get(details, "infants", PyInt(0))),
                Line("Pets", Get(details, "pets", PyInt(0))),
                Line("Hóspede", <<Get(guest, "name", PyStr(<<"N">>)),
                                  Get(guest, "location", PyStr(<<"L">>))>>),
                Line("Contato", Get(guest, "phone", PyStr(<<"T">>))),
                Line("LOCATION", property_name),
                Line("END", "VEVENT") >>

\* the loop ends at the first record it cannot export
RECURSIVE ics_events_until_bad(_)
ics_events_until_bad(reservations) ==
    IF reservations = <<>> THEN <<>>
    ELSE IF ics_event(Head(reservations)) = <<>> THEN <<>>
    ELSE ics_event(Head(reservations)) \o ics_events_until_bad(Tail(reservations))

\* lines 322-373: the loop over the records
RECURSIVE ics_events(_)
ics_events(reservations) ==
    IF reservations = <<>> THEN <<>>
    ELSE ics_event(Head(reservations)) \o ics_events(Tail(reservations))

\* the number of VEVENT blocks in a sequence of lines
RECURSIVE CountEvents(_)
CountEvents(lines) ==
    IF lines = <<>> THEN 0
    ELSE (IF Head(lines) = Line("BEGIN", "VEVENT") THEN 1 ELSE 0) + CountEvents(Tail(lines))

generate_ics(reservations_json) ==
    IF reservations_json = Undecodable
    THEN Returned(Message("Erro ao processar o JSON de reservas."))
    ELSE LET reservations == IF "reservations" \in DOMAIN reservations_json
                             THEN reservations_json.reservations ELSE <<>>
             events == ics_events(reservations)
             added_events == CountEvents(events)
         IN  IF reservations = <<>> THEN Returned(Message("Nenhuma reserva encontrada."))
             ELSE IF added_events = 0
             THEN Returned(Message("Nenhum evento válido foi encontrado nas reservas."))
             ELSE Returned([ical_content |->
                    << Line("BEGIN", "VCALENDAR"), Line("VERSION", "2.0"),
                       Line("CALSCALE", "GREGORIAN") >>
                    \o events \o << Line("END", "VCALENDAR") >>])

(***************************************************************************)
(* SpecIcs: generate_ics on documents of normalized records                *)
(***************************************************************************)
\* check-in parses, check-out does not
RawBadCheckOut == Raw(Confirmada, PropA, D20240101, D20240230, 1, E100_00, 1, 0)
\* a check-in and no check-out
RawNoCheckOut ==
    PyDict([user_facing_status_localized |-> Confirmada, listing_name |-> PropB,
            start_date |-> D20240101, nights |-> PyInt(1), earnings |-> PyStr(E100_00)])

IcsPool ==
    {process_reservation(r) :
        r \in {RawConfirmedA, RawCanceledB, RawBadCheckOut, RawNoCheckOut, RawMalformed,
               RawPartial}}

InitIcs ==
    /\ pc = "call"
    /\ call \in {[op |-> "generate_ics", reservations_json |-> j] :
                    j \in {Undecodable, Message("Nenhuma reserva encontrada.")} \cup
                          {[summary |-> <<>>, reservations |-> rs] :
                              rs \in SeqsUpTo(IcsPool, 0, MaxBatch)}}
    /\ ret = NoRet
    /\ params = init_params(DefaultLimit, PyNone)
    /\ init_offset = PyNone
    /\ NoFetchYet

GenerateIcs ==
    /\ pc = "call"
    /\ call.op = "generate_ics"
    /\ ret' = generate_ics(call.reservations_json)
    /\ pc' = "return"
    /\ UNCHANGED <<call, params, offset, all_reservations, requests, pages, init_offset>>

NextIcs == GenerateIcs

SpecIcs == InitIcs /\ [][NextIcs]_vars

\* generate_ics has run on a batch of records
IcsDone ==
    /\ pc = "return" /\ call.op = "generate_ics"
    /\ "reservations" \in DOMAIN call.reservations_json

\* the records of a batch whose check-in and check-out are both there and parse
Exportable(rs) ==
    {i \in 1..Len(rs) :
        /\ Truthy(Get(rs[i], "check_in", EmptyStr)) /\ Strptime(Get(rs[i], "check_in", EmptyStr)).ok
        /\ Truthy(Get(rs[i], "check_out", EmptyStr)) /\ Strptime(Get(rs[i], "check_out", EmptyStr)).ok}

IsCalendar(r) == r.kind = "value" /\ DOMAIN r.v = {"ical_content"}

\* C9: with k the number of records whose check-in and check-out both parse, the
\* result is one calendar, opened and closed once, with exactly k VEVENT blocks
\* when k > 0, and a message when k = 0; no record aborts the batch
C9_OneEventPerExportableRecord ==
    IcsDone =>
        LET k == Cardinality(Exportable(call.reservations_json.reservations))
        IN  /\ k > 0 =>
                /\ IsCalendar(ret)
                /\ Head(ret.v.ical_content) = Line("BEGIN", "VCALENDAR")
                /\ Last(ret.v.ical_content) = Line("END", "VCALENDAR")
                /\ Cardinality({i \in 1..Len(ret.v.ical_content) :
                        ret.v.ical_content[i] = Line("BEGIN", "VEVENT")}) = k
                /\ Cardinality({i \in 1..Len(ret.v.ical_content) :
                        ret.v.ical_content[i] = Line("END", "VEVENT")}) = k
                /\ Cardinality({i \in 1..Len(ret.v.ical_content) :
                        ret.v.ical_content[i].name = "BEGIN"
                        /\ ret.v.ical_content[i].value = "VCALENDAR"}) = 1
            /\ k = 0 => IsMessage(ret)

\* three records, the second without a check-in: a calendar of two events
C9_Witness ==
    /\ IcsDone /\ IsCalendar(ret)
    /\ Len(call.reservations_json.reservations) = 3
    /\ Exportable(call.reservations_json.reservations) = {1, 3}
    /\ ~Truthy(Get(call.reservations_json.reservations[2], "check_in", EmptyStr))

====
